---- MODULE Spec2Model ----
(***************************************************************************)
(* Order fulfilment of the shop: the SQLite-backed payment routes          *)
(* (routes/payment.js), the admin order routes                             *)
(* (routes/admin/orders-accounts.js), the models Order, RedeemCode and     *)
(* Account, the pending-page expiry check, the account update route, and   *)
(* the file-backed webhook (routes/webhook.js) over data/orders.json and   *)
(* data/roles.json.  The database routes and the file-backed webhook share *)
(* no state; each has its own specification.  The stock synchronisation    *)
(* (services/stockSync.service.js) over the accounts table and             *)
(* data/product.json has a specification of its own as well, next to the   *)
(* admin routes that edit the catalog and delete accounts.                 *)
(* Order creation (POST /create) is specified next to the file-backed      *)
(* webhook, and the file-backed webhook once more with a file system that  *)
(* stops serving data/orders.json.  Further specifications cover the two   *)
(* routes that send a redeem code again (POST /resend in routes/webhook.js *)
(* and POST /api/admin/send-redeem in server.js), the inventory-file       *)
(* variant of the stock synchronisation (scripts/sync-stock.js), the       *)
(* deletion of accounts next to manual completion, the stock kept in       *)
(* data/roles.json, direct calls of RedeemCode.markAsUsed and              *)
(* RedeemCode.delete, the news routes (routes/admin/news.js) over          *)
(* data/news.json, and the start-up, retry and auto-recovery of the mail   *)
(* service, whose timers and promise callbacks are the steps.              *)
(*                                                                         *)
(* Every request handler is an async function: it runs without             *)
(* interruption up to an await and may be overtaken by any other handler   *)
(* while it waits.  A handler is a process in one of the request slots     *)
(* Procs; pc[p] is the await it is suspended at, req[p] its request,       *)
(* loc[p] its local variables and resp[p] the response it has sent.        *)
(***************************************************************************)
EXTENDS Integers, FiniteSets, Sequences, TLC

\* ---------------------------------------------------------------- bounds
NumProcs == 2
NumOrders == 2
MaxCodes == 2
MaxAccounts == 2
\* requests the server accepts in one run of the model
MaxRequests == 3

Procs == 1..NumProcs
OrderNums == 1..NumOrders
CodeNums == 1..MaxCodes
AccIds == 1..MaxAccounts

\* ------------------------------------------------------------ value sets
OrderName(i) == <<"ORD", i>>
CodeName(i) == <<"CODE", i>>
OrderIds == {OrderName(i) : i \in OrderNums}
Codes == {CodeName(i) : i \in CodeNums}
NoOrder == <<"ORD", 0>>
UnknownOrder == <<"ORD", NumOrders + 1>>
NoCode == <<"CODE", 0>>
NoAcc == 0

Role == "P1"
Customer == "buyer@example.com"
\* the price of the product, what an honest event carries, and an underpayment
GoodAmount == 20000
BadAmount == GoodAmount - 1
NoAmount == 0
EventStatuses == {"completed", "pending", "failed"}
\* minutes after which a pending order has run out of time, and the ages
\* (now - createdAt, in minutes) an expiry check may see
ExpiryMinutes == 15
RequestAges == {10, 20}
TerminalStatuses == {"completed", "failed", "cancelled", "expired"}

\* ------------------------------------------------- values of product.json
\* A JSON value of the catalog: a string (its characters), a number, or
\* nothing at all (the property is missing).
JStr(s) == [t |-> "string", s |-> s, n |-> 0]
JNum(n) == [t |-> "number", s |-> <<>>, n |-> n]
JMissing == [t |-> "undefined", s |-> <<>>, n |-> 0]

Digits == <<"0", "1", "2", "3", "4", "5", "6", "7", "8", "9">>
IsDigit(c) == \E i \in DOMAIN Digits : Digits[i] = c
DigitVal(c) == (CHOOSE i \in DOMAIN Digits : Digits[i] = c) - 1

\* Number.prototype.toString in base ten
RECURSIVE NumberToString(_)
NumberToString(n) ==
    IF n < 0 THEN <<"-">> \o NumberToString(0 - n)
    ELSE IF n < Len(Digits) THEN <<Digits[n + 1]>>
    ELSE NumberToString(n \div Len(Digits)) \o <<Digits[(n % Len(Digits)) + 1]>>

\* value.toString() / String(value)
StringOf(v) ==
    IF v.t = "string" THEN v.s
    ELSE IF v.t = "number" THEN NumberToString(v.n)
    ELSE <<"u", "n", "d", "e", "f", "i", "n", "e", "d">>

RECURSIVE TrimStart(_)
TrimStart(s) == IF s # <<>> /\ Head(s) = " " THEN TrimStart(Tail(s)) ELSE s

RECURSIVE DigitPrefix(_)
DigitPrefix(s) ==
    IF s = <<>> \/ ~IsDigit(Head(s)) THEN <<>> ELSE <<Head(s)>> \o DigitPrefix(Tail(s))

RECURSIVE DigitsValue(_, _)
DigitsValue(s, sofar) ==
    IF s = <<>> THEN sofar
    ELSE DigitsValue(Tail(s), sofar * Len(Digits) + DigitVal(Head(s)))

NaN == [nan |-> TRUE, n |-> 0]

\* parseInt(value): the value as a string, leading blanks dropped, an optional
\* sign, then the longest run of decimal digits; NaN when there is none.
ParseInt(v) ==
    LET str == TrimStart(StringOf(v))
        signed == str # <<>> /\ Head(str) \in {"-", "+"}
        run == DigitPrefix(IF signed THEN Tail(str) ELSE str)
    IN  IF run = <<>> THEN NaN
        ELSE [nan |-> FALSE,
              n |-> IF signed /\ Head(str) = "-" THEN 0 - DigitsValue(run, 0)
                    ELSE DigitsValue(run, 0)]

\* parseInt(value) || 0
ParseIntOrZero(v) == IF ParseInt(v).nan THEN 0 ELSE ParseInt(v).n

ProductIds == {"P1", "P2"}
Prices == {"20000", "25000"}
NewProduct(stock) == [name |-> "Netflix 1 Bulan", price |-> "20000",
                      description |-> "Netflix Premium 1 Bulan", stock |-> stock]

VARIABLES
    orders,     \* table orders: orderId -> row
    codes,      \* table redeem_codes: code -> row (createdAt order = code number)
    accounts,   \* table accounts: id -> row
    productJson, \* data/product.json: product id -> catalog entry
    fileOrders, \* data/orders.json: orderId -> entry
    roleStock,  \* data/roles.json: the stock of the role
    ordersFile, \* data/orders.json as the file system serves it
    news,       \* data/news.json: the active item and the history
    bot,        \* the mail service (models/WhatsAppBot.js) and its timers
    nreq,       \* requests accepted so far
    pc, req, loc, resp

vars == <<orders, codes, accounts, productJson, fileOrders, roleStock, ordersFile,
          news, bot, nreq, pc, req, loc, resp>>

\* the news file and the mail service, which the order routes leave alone
sideVars == <<news, bot>>

fileVars == <<fileOrders, roleStock, ordersFile, sideVars>>

sqlVars == <<orders, codes, accounts, productJson>>

\* ------------------------------------------------------------- requests
NoReq == [kind |-> "none", order |-> NoOrder, status |-> "", amount |-> NoAmount, acc |-> NoAcc,
          age |-> 0]
NoLoc == [ostatus |-> "", ocode |-> NoCode, code |-> NoCode, acc |-> NoAcc, stock |-> 0,
          snap |-> <<>>, stats |-> <<>>]

Quiet(p) == pc[p] = "idle"

\* A request is accepted into the first free slot.
Accept(p, r) ==
    /\ Quiet(p)
    /\ \A q \in Procs : q < p => ~Quiet(q)
    /\ nreq < MaxRequests
    /\ nreq' = nreq + 1
    /\ req' = [req EXCEPT ![p] = r]

\* A handler's last step: the response is sent and its locals are gone.
Finish(p, r) ==
    /\ pc' = [pc EXCEPT ![p] = "replied"]
    /\ resp' = [resp EXCEPT ![p] = r]
    /\ loc' = [loc EXCEPT ![p] = NoLoc]

\* The response reaches the client and the slot is free again.
Deliver(p) ==
    /\ pc[p] = "replied"
    /\ pc' = [pc EXCEPT ![p] = "idle"]
    /\ req' = [req EXCEPT ![p] = NoReq]
    /\ resp' = [resp EXCEPT ![p] = ""]
    /\ UNCHANGED <<orders, codes, accounts, productJson, nreq, loc>>
    /\ UNCHANGED fileVars

\* The handler suspends at its next await.
Goto(p, label) ==
    /\ pc' = [pc EXCEPT ![p] = label]
    /\ resp' = [resp EXCEPT ![p] = ""]

\* ------------------------------------------------------------ Order model
NewOrder == [status |-> "pending", amount |-> GoodAmount, role |-> Role,
             username |-> Customer, redeemCode |-> NoCode, accountData |-> NoAcc,
             failedReason |-> ""]

\* Order.findByOrderId: the row, if there is one.
OrderExists(id) == id \in DOMAIN orders

\* Order.update: SET every key of the patch WHERE orderId = id; no row, no change.
OrderUpdate(id, patch) ==
    IF id \in DOMAIN orders
    THEN [orders EXCEPT ![id] =
            [k \in DOMAIN orders[id] |->
                IF k \in DOMAIN patch THEN patch[k] ELSE orders[id][k]]]
    ELSE orders

\* -------------------------------------------------------- RedeemCode model
NewCode == [role |-> Role, used |-> FALSE, usedBy |-> "", orderId |-> NoOrder]

AvailableCodes(role) == {c \in DOMAIN codes : codes[c].role = role /\ ~codes[c].used}

\* RedeemCode.getAvailableCode: the oldest unused code of the role, or none.
GetAvailableCode(role) ==
    IF AvailableCodes(role) = {} THEN NoCode
    ELSE CHOOSE c \in AvailableCodes(role) :
            \A d \in AvailableCodes(role) : c[2] <= d[2]

\* A variant of the update without the condition on used, against which the
\* single claim of a code is checked.
MarkAsUsedAny(code, usedBy, orderId) ==
    IF code \in DOMAIN codes
    THEN [codes EXCEPT ![code] = [@ EXCEPT !.used = TRUE, !.usedBy = usedBy,
                                            !.orderId = orderId]]
    ELSE codes

\* RedeemCode.markAsUsed: UPDATE ... WHERE code = ? AND used = 0.
MarkAsUsed(code, usedBy, orderId) ==
    IF code \in DOMAIN codes /\ ~codes[code].used
    THEN [codes EXCEPT ![code] = [@ EXCEPT !.used = TRUE, !.usedBy = usedBy,
                                            !.orderId = orderId]]
    ELSE codes

\* result.changes of the UPDATE of markAsUsed and of the DELETE of delete:
\* the rows WHERE code = ? AND used = 0 matches.
UnusedRows(code) == IF code \in DOMAIN codes /\ ~codes[code].used THEN 1 ELSE 0

\* RedeemCode.delete: DELETE FROM redeem_codes WHERE code = ? AND used = 0.
DeleteCode(code) ==
    [c \in {d \in DOMAIN codes : ~(d = code /\ ~codes[d].used)} |-> codes[c]]

\* callers of the model: the customer of the order, or somebody else
OtherUser == "other@example.com"

\* A call of RedeemCode.markAsUsed(code, usedBy, orderId); acc is the number
\* of the code and status the user.
MarkUsedCalls ==
    [kind : {"markused"}, order : OrderIds, status : {Customer, OtherUser},
     amount : {NoAmount}, acc : CodeNums, age : {0}]

\* The call is made: await db.run(sql, [usedBy, orderId, code]).
MarkUsedRun(p) ==
    /\ \E r \in MarkUsedCalls :
        /\ Accept(p, r)
        /\ codes' = MarkAsUsed(CodeName(r.acc), r.status, r.order)
        /\ loc' = [loc EXCEPT ![p].stock = UnusedRows(CodeName(r.acc))]
    /\ Goto(p, "mu_result")
    /\ UNCHANGED <<orders, accounts, productJson, fileVars>>

\* result.changes > 0: the row is read with findByCode and returned; else null.
MarkUsedResult(p) ==
    /\ pc[p] = "mu_result"
    /\ Finish(p, IF loc[p].stock = 0 THEN "null"
                 ELSE IF CodeName(req[p].acc) \in DOMAIN codes THEN "code row"
                 ELSE "undefined")
    /\ UNCHANGED <<sqlVars, fileVars, nreq, req>>

\* A call of RedeemCode.delete(code): true when a row was deleted.
DeleteCalls == {[NoReq EXCEPT !.kind = "codedelete", !.acc = i] : i \in CodeNums}

CodeDelete(p) ==
    /\ \E r \in DeleteCalls :
        /\ Accept(p, r)
        /\ codes' = DeleteCode(CodeName(r.acc))
        /\ Finish(p, IF UnusedRows(CodeName(r.acc)) > 0 THEN "true" ELSE "false")
    /\ UNCHANGED <<orders, accounts, productJson, fileVars>>

\* ----------------------------------------------------------- Account model
NewAccount == [product_id |-> Role, status |-> "available", sold_to |-> "",
               order_id |-> NoOrder]

\* Account.getById: whether the row exists (SELECT * FROM accounts WHERE id = ?).
AccountExists(id) == id \in DOMAIN accounts

\* The rows SELECT ... WHERE product_id = ? AND status = 'available' matches.
AvailableAccounts(productId) ==
    {a \in DOMAIN accounts :
        accounts[a].product_id = productId /\ accounts[a].status = "available"}

\* Account.getStock: COUNT(*) of the available rows of the product.
GetStock(productId) == Cardinality(AvailableAccounts(productId))

\* Account.markAsSold, its UPDATE: SET status = 'sold', sold_to, order_id
\* WHERE id = ? (the row's status is not part of the condition).
MarkSoldUpdate(id, customerEmail, orderId) ==
    IF id \in DOMAIN accounts
    THEN [accounts EXCEPT ![id] = [@ EXCEPT !.status = "sold",
                                            !.sold_to = customerEmail,
                                            !.order_id = orderId]]
    ELSE accounts

\* ------------------------------------------- POST /webhook/pakasir (payment.js)
\* a body without the status field
NoStatus == ""

\* Bodies with all three fields, and bodies lacking the amount or the status.
WebhookEvents ==
    [kind : {"webhook"}, order : OrderIds \cup {NoOrder, UnknownOrder},
     status : EventStatuses, amount : {GoodAmount, BadAmount}, acc : {NoAcc}, age : {0}]
    \cup [kind : {"webhook"}, order : OrderIds, status : {"completed"},
          amount : {NoAmount}, acc : {NoAcc}, age : {0}]
    \cup [kind : {"webhook"}, order : OrderIds, status : {NoStatus},
          amount : {GoodAmount}, acc : {NoAcc}, age : {0}]

\* The request arrives: order_id is checked and the order is looked up.
WebhookStart(p) ==
    /\ \E ev \in WebhookEvents :
        /\ Accept(p, ev)
        /\ IF ev.order = NoOrder
           THEN Finish(p, "400 missing order_id")
           ELSE IF ~OrderExists(ev.order)
           THEN Finish(p, "404 order not found")
           ELSE /\ Goto(p, IF ev.status = "completed" \/ ev.status = "success"
                           THEN "wh_getcode"
                           ELSE IF ev.status = "pending" THEN "wh_pending"
                           ELSE "wh_other")
                /\ loc' = [loc EXCEPT ![p].ostatus = orders[ev.order].status,
                                       ![p].ocode = orders[ev.order].redeemCode]
    /\ UNCHANGED <<orders, codes, accounts, productJson>>
    /\ UNCHANGED fileVars

\* const redeemCode = await RedeemCode.getAvailableCode(order.role)
WebhookGetCode(p) ==
    /\ pc[p] = "wh_getcode"
    /\ LET c == GetAvailableCode(orders[req[p].order].role) IN
        /\ loc' = [loc EXCEPT ![p].code = c]
        /\ Goto(p, IF c = NoCode THEN "wh_nostock" ELSE "wh_mark")
    /\ UNCHANGED <<orders, codes, accounts, productJson, nreq, req>>
    /\ UNCHANGED fileVars

\* await RedeemCode.markAsUsed(redeemCode.code, order.username, order_id):
\* the result is not looked at.
WebhookMark(p) ==
    /\ pc[p] = "wh_mark"
    /\ codes' = MarkAsUsed(loc[p].code, orders[req[p].order].username, req[p].order)
    /\ Goto(p, "wh_complete")
    /\ UNCHANGED <<orders, accounts, productJson, nreq, req, loc>>
    /\ UNCHANGED fileVars

\* A variant of the completing update that also stores the amount the event
\* carries.
WebhookCompleteAmount(p) ==
    /\ pc[p] = "wh_complete"
    /\ orders' = OrderUpdate(req[p].order,
                    [status |-> "completed", redeemCode |-> loc[p].code,
                     amount |-> req[p].amount])
    /\ Goto(p, "wh_email")
    /\ UNCHANGED <<codes, accounts, productJson, nreq, req, loc>>
    /\ UNCHANGED fileVars

\* await Order.update(order_id, {status: 'completed', redeemCode, completedAt})
WebhookComplete(p) ==
    /\ pc[p] = "wh_complete"
    /\ orders' = OrderUpdate(req[p].order,
                    [status |-> "completed", redeemCode |-> loc[p].code])
    /\ Goto(p, "wh_email")
    /\ UNCHANGED <<codes, accounts, productJson, nreq, req, loc>>
    /\ UNCHANGED fileVars

\* sendRedeemCode resolves or throws (caught); res.json({received: true})
WebhookEmail(p) ==
    /\ pc[p] = "wh_email"
    /\ Finish(p, "200 received")
    /\ UNCHANGED <<orders, codes, accounts, productJson, nreq, req>>
    /\ UNCHANGED fileVars

\* No code: Order.update(order_id, {status: 'failed', failedReason: 'Out of stock'})
WebhookNoStock(p) ==
    /\ pc[p] = "wh_nostock"
    /\ orders' = OrderUpdate(req[p].order,
                    [status |-> "failed", failedReason |-> "Out of stock"])
    /\ Finish(p, "200 received")
    /\ UNCHANGED <<codes, accounts, productJson, nreq, req>>
    /\ UNCHANGED fileVars

\* A variant of the pending branch that also records the tag of the event as
\* the failure reason, as the last branch might.
WebhookPendingTagged(p) ==
    /\ pc[p] = "wh_pending"
    /\ orders' = OrderUpdate(req[p].order,
                    [status |-> "pending", failedReason |-> req[p].status])
    /\ Finish(p, "200 received")
    /\ UNCHANGED <<codes, accounts, productJson, nreq, req>>
    /\ UNCHANGED fileVars

\* status 'pending': Order.update(order_id, {status: 'pending'})
WebhookPending(p) ==
    /\ pc[p] = "wh_pending"
    /\ orders' = OrderUpdate(req[p].order, [status |-> "pending"])
    /\ Finish(p, "200 received")
    /\ UNCHANGED <<codes, accounts, productJson, nreq, req>>
    /\ UNCHANGED fileVars

\* any other status: Order.update(order_id, {status: 'failed'})
WebhookOther(p) ==
    /\ pc[p] = "wh_other"
    /\ orders' = OrderUpdate(req[p].order, [status |-> "failed"])
    /\ Finish(p, "200 received")
    /\ UNCHANGED <<codes, accounts, productJson, nreq, req>>
    /\ UNCHANGED fileVars

\* --------------------- POST /orders/:orderId/complete (admin/orders-accounts.js)
ManualRequests ==
    [kind : {"manual"}, order : OrderIds \cup {UnknownOrder}, status : {""},
     amount : {NoAmount}, acc : AccIds \cup {NoAcc}, age : {0}]

\* The request arrives: accountId is checked, the order is read and must be pending.
ManualStart(p) ==
    /\ \E r \in ManualRequests :
        /\ Accept(p, r)
        /\ IF r.acc = NoAcc
           THEN Finish(p, "400 account id required")
           ELSE IF ~OrderExists(r.order)
           THEN Finish(p, "404 order not found")
           ELSE IF orders[r.order].status # "pending"
           THEN Finish(p, "400 order not pending")
           ELSE /\ Goto(p, "mc_getacct")
                /\ UNCHANGED loc
    /\ UNCHANGED <<orders, codes, accounts, productJson>>
    /\ UNCHANGED fileVars

\* const account = await Account.getById(accountId); it must be available.
\* The handler keeps the row it read.
ManualGetAccount(p) ==
    /\ pc[p] = "mc_getacct"
    /\ IF ~AccountExists(req[p].acc)
       THEN Finish(p, "404 account not found")
       ELSE IF accounts[req[p].acc].status # "available"
       THEN Finish(p, "400 account not available")
       ELSE /\ Goto(p, "mc_select")
            /\ loc' = [loc EXCEPT ![p].code = <<"PRODUCT", accounts[req[p].acc].product_id>>]
    /\ UNCHANGED <<orders, codes, accounts, productJson, nreq, req>>
    /\ UNCHANGED fileVars

\* Account.markAsSold(account.product_id, orderId, order.username), its SELECT:
\* one available row of the product (LIMIT 1, no ORDER BY), or none.
ManualSelect(p) ==
    /\ pc[p] = "mc_select"
    /\ LET avail == AvailableAccounts(loc[p].code[2]) IN
        IF avail = {}
        THEN Finish(p, "500 failed to mark account as sold")
        ELSE \E a \in avail :
                /\ loc' = [loc EXCEPT ![p].acc = a, ![p].code = NoCode]
                /\ Goto(p, "mc_sold")
    /\ UNCHANGED <<orders, codes, accounts, productJson, nreq, req>>
    /\ UNCHANGED fileVars

\* Account.markAsSold, its UPDATE and the read of the row it returns.
ManualMarkSold(p) ==
    /\ pc[p] = "mc_sold"
    /\ accounts' = MarkSoldUpdate(loc[p].acc, orders[req[p].order].username,
                                  req[p].order)
    /\ Goto(p, "mc_order")
    /\ UNCHANGED <<orders, codes, productJson, nreq, req, loc>>
    /\ UNCHANGED fileVars

\* UPDATE orders SET status = 'completed', accountData = ? WHERE orderId = ?
ManualCompleteOrder(p) ==
    /\ pc[p] = "mc_order"
    /\ orders' = OrderUpdate(req[p].order,
                    [status |-> "completed", accountData |-> loc[p].acc])
    /\ Goto(p, "mc_email")
    /\ UNCHANGED <<codes, accounts, productJson, nreq, req, loc>>
    /\ UNCHANGED fileVars

\* sendAccountEmail resolves or throws (caught); product.json is read and
\* const stock = await Account.getStock(order.role) counts the available rows.
ManualEmail(p) ==
    /\ pc[p] = "mc_email"
    /\ loc' = [loc EXCEPT ![p].stock = GetStock(orders[req[p].order].role),
                           ![p].snap = productJson]
    /\ Goto(p, "mc_stock")
    /\ UNCHANGED <<orders, codes, accounts, productJson, nreq, req>>
    /\ UNCHANGED fileVars

\* rolesData.roles[roleIndex].stock = stock; the file is written; success.
ManualStock(p) ==
    /\ pc[p] = "mc_stock"
    /\ productJson' = IF orders[req[p].order].role \in DOMAIN loc[p].snap
                      THEN [loc[p].snap EXCEPT
                               ![orders[req[p].order].role].stock = JNum(loc[p].stock)]
                      ELSE productJson
    /\ Finish(p, "200 order completed")
    /\ UNCHANGED <<orders, codes, accounts, nreq, req>>
    /\ UNCHANGED fileVars

\* ------------------------------------ POST /orders/:orderId/cancel (admin)
AdminCancelRequests ==
    [kind : {"admincancel"}, order : OrderIds \cup {UnknownOrder}, status : {""},
     amount : {NoAmount}, acc : {NoAcc}, age : {0}]

AdminCancelStart(p) ==
    /\ \E r \in AdminCancelRequests :
        /\ Accept(p, r)
        /\ IF ~OrderExists(r.order)
           THEN Finish(p, "404 order not found")
           ELSE IF orders[r.order].status # "pending"
           THEN Finish(p, "400 order not pending")
           ELSE /\ Goto(p, "ac_update")
                /\ UNCHANGED loc
    /\ UNCHANGED <<orders, codes, accounts, productJson>>
    /\ UNCHANGED fileVars

\* UPDATE orders SET status = 'cancelled', failedReason = ? WHERE orderId = ?
AdminCancelUpdate(p) ==
    /\ pc[p] = "ac_update"
    /\ orders' = OrderUpdate(req[p].order,
                    [status |-> "cancelled", failedReason |-> "Cancelled by admin"])
    /\ Finish(p, "200 order cancelled")
    /\ UNCHANGED <<codes, accounts, productJson, nreq, req>>
    /\ UNCHANGED fileVars

\* ------------------------------------------ POST /cancel/:orderId (payment.js)
CancelRequests ==
    [kind : {"cancel"}, order : OrderIds \cup {UnknownOrder}, status : {""},
     amount : {NoAmount}, acc : {NoAcc}, age : {0}]

CancelStart(p) ==
    /\ \E r \in CancelRequests :
        /\ Accept(p, r)
        /\ IF ~OrderExists(r.order)
           THEN Finish(p, "404 order not found")
           ELSE /\ Goto(p, "cn_update")
                /\ UNCHANGED loc
    /\ UNCHANGED <<orders, codes, accounts, productJson>>
    /\ UNCHANGED fileVars

\* await Order.update(orderId, {status: 'cancelled', cancelledAt})
CancelUpdate(p) ==
    /\ pc[p] = "cn_update"
    /\ orders' = OrderUpdate(req[p].order, [status |-> "cancelled"])
    /\ Finish(p, "200 transaction cancelled")
    /\ UNCHANGED <<codes, accounts, productJson, nreq, req>>
    /\ UNCHANGED fileVars

\* ---------------------------------------- POST /simulate/:orderId (payment.js)
SimulateRequests ==
    [kind : {"simulate"}, order : OrderIds \cup {UnknownOrder}, status : {""},
     amount : {NoAmount}, acc : {NoAcc}, age : {0}]

SimulateStart(p) ==
    /\ \E r \in SimulateRequests :
        /\ Accept(p, r)
        /\ IF ~OrderExists(r.order)
           THEN Finish(p, "404 order not found")
           ELSE /\ Goto(p, "sm_update")
                /\ UNCHANGED loc
    /\ UNCHANGED <<orders, codes, accounts, productJson>>
    /\ UNCHANGED fileVars

\* await Order.update(orderId, {status: 'completed', completedAt})
SimulateUpdate(p) ==
    /\ pc[p] = "sm_update"
    /\ orders' = OrderUpdate(req[p].order, [status |-> "completed"])
    /\ Finish(p, "200 payment simulated")
    /\ UNCHANGED <<codes, accounts, productJson, nreq, req>>
    /\ UNCHANGED fileVars

\* ------------------------------------- GET /pending/status/:orderId (pending.js)
ExpiryRequests ==
    [kind : {"expiry"}, order : OrderIds \cup {UnknownOrder}, status : {""},
     amount : {NoAmount}, acc : {NoAcc}, age : RequestAges]

\* The order is read; with no time remaining and status pending the update follows.
ExpiryStart(p) ==
    /\ \E r \in ExpiryRequests :
        /\ Accept(p, r)
        /\ IF ~OrderExists(r.order)
           THEN Finish(p, "404 order not found")
           ELSE IF r.age > ExpiryMinutes /\ orders[r.order].status = "pending"
           THEN /\ Goto(p, "ex_update")
                /\ UNCHANGED loc
           ELSE Finish(p, "200 status")
    /\ UNCHANGED <<orders, codes, accounts, productJson>>
    /\ UNCHANGED fileVars

\* await Order.update(orderId, {status: 'expired', failedReason: 'Payment timeout'})
ExpiryUpdate(p) ==
    /\ pc[p] = "ex_update"
    /\ orders' = OrderUpdate(req[p].order,
                    [status |-> "expired", failedReason |-> "Payment timeout"])
    /\ Finish(p, "200 status")
    /\ UNCHANGED <<codes, accounts, productJson, nreq, req>>
    /\ UNCHANGED fileVars

\* ------------------------------------------ PUT /:id (routes/admin/accounts.js)
AccountPutRequests ==
    [kind : {"accountput"}, order : {NoOrder}, status : {"available"},
     amount : {NoAmount}, acc : AccIds \cup {MaxAccounts + 1}, age : {0}]

\* The request arrives: const account = await Account.getById(id)
AccountPutStart(p) ==
    /\ \E r \in AccountPutRequests :
        /\ Accept(p, r)
        /\ Goto(p, "ap_check")
    /\ UNCHANGED <<sqlVars, fileVars, loc>>

\* 404 without the row, 400 for a sold one; otherwise Account.update(id, updates)
\* is called, which the Account class of config/database.js does not have: the
\* call throws and the catch answers 500. No row is written.
AccountPutCheck(p) ==
    /\ pc[p] = "ap_check"
    /\ IF ~AccountExists(req[p].acc)
       THEN Finish(p, "404 account not found")
       ELSE IF accounts[req[p].acc].status = "sold"
       THEN Finish(p, "400 cannot update sold accounts")
       ELSE Finish(p, "500 update error")
    /\ UNCHANGED <<sqlVars, fileVars, nreq, req>>

\* ------------------------------------------------ POST /create (payment.js)
\* the amounts parseInt(product.price) || 0 gives for the prices of the catalog
CreateAmounts == {GoodAmount, BadAmount, NoAmount}

\* The order id is 'GTPS-' + Date.now() + '-' + six random characters: one of
\* a few ids here, so that two requests can draw the same one.
CreateRequests ==
    [kind : {"create"}, order : OrderIds, status : {"", "incomplete"},
     amount : CreateAmounts, acc : {NoAcc}, age : {0}]

\* INSERT INTO orders (...) under orderId TEXT UNIQUE NOT NULL: a row with the
\* order id makes the statement fail, and the table stays as it is.
InsertFails(id) == id \in DOMAIN orders

\* A variant of the insert that replaces the row of the order id
\* (INSERT OR REPLACE), against which the uniqueness of the ids is checked.
OrderInsertReplace(id, amount) ==
    [o \in DOMAIN orders \cup {id} |->
        IF o = id THEN [NewOrder EXCEPT !.amount = amount] ELSE orders[o]]

OrderInsert(id, amount) ==
    IF InsertFails(id) THEN orders
    ELSE [o \in DOMAIN orders \cup {id} |->
            IF o = id THEN [NewOrder EXCEPT !.amount = amount] ELSE orders[o]]

\* The request arrives: the fields and the product's price are checked, the
\* order id is drawn, and the handler awaits Order.create.
CreateStart(p) ==
    /\ \E r \in CreateRequests :
        /\ Accept(p, r)
        /\ IF r.status = "incomplete"
           THEN Finish(p, "400 missing required fields")
           ELSE IF r.amount <= 0
           THEN Finish(p, "400 invalid product price")
           ELSE /\ Goto(p, "cr_insert")
                /\ UNCHANGED loc
    /\ UNCHANGED <<sqlVars, fileVars>>

\* Order.create: the INSERT, then the row read back; the catch answers 500.
CreateInsert(p) ==
    /\ pc[p] = "cr_insert"
    /\ orders' = OrderInsert(req[p].order, req[p].amount)
    /\ Finish(p, IF InsertFails(req[p].order)
                 THEN "500 failed to create payment"
                 ELSE "200 payment created")
    /\ UNCHANGED <<codes, accounts, productJson, fileVars, nreq, req>>

\* --------------------------------- stock sync (services/stockSync.service.js)
\* getAccountsCountByProduct: one row of counts for every product_id that has
\* account rows.
DbStats ==
    [i \in {accounts[a].product_id : a \in DOMAIN accounts} |->
        [total |-> Cardinality({a \in DOMAIN accounts : accounts[a].product_id = i}),
         available |-> Cardinality(AvailableAccounts(i)),
         sold |-> Cardinality({a \in DOMAIN accounts :
                     accounts[a].product_id = i /\ accounts[a].status = "sold"})]]

\* A variant of the comparison that takes the total of the product's accounts
\* for the count to compare with; the properties of the sync are checked
\* against it to show that they depend on the comparison.
NeedsWriteTotal(product, id, dbStats) ==
    IF id \in DOMAIN dbStats
    THEN ParseIntOrZero(product.stock) # dbStats[id].total
    ELSE ParseInt(product.stock).nan \/ ParseInt(product.stock).n # 0

\* updateProductJson, for one product: is its stock rewritten?
NeedsWrite(product, id, dbStats) ==
    IF id \in DOMAIN dbStats
    THEN ParseIntOrZero(product.stock) # dbStats[id].available
    ELSE ParseInt(product.stock).nan \/ ParseInt(product.stock).n # 0

\* A variant of the forEach body that builds the entry anew around the stock
\* instead of assigning the one field.
SyncedProductFresh(product, id, dbStats) ==
    IF ~NeedsWrite(product, id, dbStats) THEN product
    ELSE IF id \in DOMAIN dbStats
    THEN NewProduct(JStr(NumberToString(dbStats[id].available)))
    ELSE NewProduct(JStr(<<"0">>))

\* updateProductJson, for one product: the entry after the forEach.
SyncedProduct(product, id, dbStats) ==
    IF ~NeedsWrite(product, id, dbStats) THEN product
    ELSE IF id \in DOMAIN dbStats
    THEN [product EXCEPT !.stock = JStr(NumberToString(dbStats[id].available))]
    ELSE [product EXCEPT !.stock = JStr(<<"0">>)]

\* updateProductJson: the catalog it leaves on disk, and its result.
UpdateProductJson(json, dbStats) ==
    [i \in DOMAIN json |-> SyncedProduct(json[i], i, dbStats)]

Updated(json, dbStats) == \E i \in DOMAIN json : NeedsWrite(json[i], i, dbStats)

SyncRequests == {[NoReq EXCEPT !.kind = "sync"]}

\* POST /api/admin/stock/sync: syncStock awaits getAccountsCountByProduct.
SyncStart(p) ==
    /\ \E r \in SyncRequests : Accept(p, r)
    /\ loc' = [loc EXCEPT ![p].stats = DbStats]
    /\ Goto(p, "sy_update")
    /\ UNCHANGED <<sqlVars, fileVars>>

\* updateProductJson(dbStats) runs in one piece: product.json is read, every
\* product compared, and the file written when a product changed.
SyncUpdate(p) ==
    /\ pc[p] = "sy_update"
    /\ productJson' = IF Updated(productJson, loc[p].stats)
                      THEN UpdateProductJson(productJson, loc[p].stats)
                      ELSE productJson
    /\ Finish(p, IF Updated(productJson, loc[p].stats)
                 THEN "200 synchronized, updated"
                 ELSE "200 synchronized, no changes")
    /\ UNCHANGED <<orders, codes, accounts, fileVars, nreq, req>>

ReportRequests == {[NoReq EXCEPT !.kind = "report"]}

\* GET /api/admin/stock/status: getDetailedStockReport awaits the counts.
ReportStart(p) ==
    /\ \E r \in ReportRequests : Accept(p, r)
    /\ loc' = [loc EXCEPT ![p].stats = DbStats]
    /\ Goto(p, "rp_read")
    /\ UNCHANGED <<sqlVars, fileVars>>

\* needsUpdate of one product in the report
NeedsUpdate(product, id, dbStats) ==
    ParseIntOrZero(product.stock)
        # (IF id \in DOMAIN dbStats THEN dbStats[id].available ELSE 0)

\* product.json is read and the report is built and sent.
ReportRead(p) ==
    /\ pc[p] = "rp_read"
    /\ Finish(p, IF \E i \in DOMAIN productJson :
                        NeedsUpdate(productJson[i], i, loc[p].stats)
                 THEN "200 report, needs update"
                 ELSE "200 report, in sync")
    /\ UNCHANGED <<sqlVars, fileVars, nreq, req>>

\* syncStock when getAccountsCountByProduct rejects (the database cannot be
\* opened or the query fails): the catch returns success false and
\* updateProductJson is not called.
SyncReadFails(p) ==
    /\ \E r \in SyncRequests : Accept(p, [r EXCEPT !.status = "unreadable"])
    /\ Finish(p, "200 sync failed")
    /\ UNCHANGED <<sqlVars, fileVars>>

\* ------------------------- stock sync over accounts.json (scripts/sync-stock.js)
\* data/accounts.json as a run finds it
InventoryFiles == {"readable", "unreadable", "missing"}

JsonSyncRequests == {[NoReq EXCEPT !.kind = "jsonsync", !.status = m] : m \in InventoryFiles}

\* getAccountsCountByProduct over accounts.json holding n available and k sold
\* accounts of the product: {} when the file is missing, and {} from the
\* catch when the read or the parse throws.
JsonStats(m, n, k) ==
    IF m = "readable" /\ n + k > 0
    THEN [i \in {Role} |-> [total |-> n + k, available |-> n, sold |-> k]]
    ELSE [i \in {} |-> [total |-> 0, available |-> 0, sold |-> 0]]

\* syncStock of this variant has no await that waits for anything: the counts,
\* updateProductJson and the result follow each other in one piece.
JsonSync(p) ==
    /\ \E r \in JsonSyncRequests, n \in 0..MaxAccounts, k \in 0..MaxAccounts :
        /\ n + k <= MaxAccounts
        /\ Accept(p, r)
        /\ productJson' = IF Updated(productJson, JsonStats(r.status, n, k))
                          THEN UpdateProductJson(productJson, JsonStats(r.status, n, k))
                          ELSE productJson
        /\ Finish(p, IF Updated(productJson, JsonStats(r.status, n, k))
                     THEN "200 synchronized, updated"
                     ELSE "200 synchronized, no changes")
    /\ UNCHANGED <<orders, codes, accounts, fileVars>>

\* ------------------------------- PUT /products/:id (routes/admin/accounts.js)
\* stock values a request body may carry: strings and numbers
PutStocks == {JStr(<<"1">>), JStr(<<"a">>), JStr(<<>>), JNum(1)}

ProductPutRequests == {[NoReq EXCEPT !.kind = "productput"]}

\* The handler has no await: the file is read, the fields present in the body
\* are set (price and stock through toString) and the file is written.
ProductPut(p) ==
    /\ \E r \in ProductPutRequests : Accept(p, r)
    /\ \E id \in ProductIds \cup {"P0"}, price \in Prices \cup {""},
          stock \in PutStocks \cup {JMissing} :
          IF id \notin DOMAIN productJson
          THEN /\ Finish(p, "404 product not found")
               /\ UNCHANGED productJson
          ELSE /\ productJson' = [productJson EXCEPT
                    ![id].price = IF price = "" THEN @ ELSE price,
                    ![id].stock = IF stock = JMissing THEN @ ELSE JStr(StringOf(stock))]
               /\ Finish(p, "200 product updated")
    /\ UNCHANGED <<orders, codes, accounts, fileVars>>

\* ------------------------------------ DELETE /:id (routes/admin/accounts.js)
AccountDeleteRequests == {[NoReq EXCEPT !.kind = "accountdelete", !.acc = a] : a \in AccIds}

\* The request arrives: const account = await Account.getById(id)
AccountDeleteStart(p) ==
    /\ \E r \in AccountDeleteRequests : Accept(p, r)
    /\ Goto(p, "ad_check")
    /\ UNCHANGED <<sqlVars, fileVars, loc>>

\* 404 without the row, 400 for a sold one; else await Account.delete(id)
AccountDeleteCheck(p) ==
    /\ pc[p] = "ad_check"
    /\ IF ~AccountExists(req[p].acc)
       THEN Finish(p, "404 account not found")
       ELSE IF accounts[req[p].acc].status = "sold"
       THEN Finish(p, "400 cannot delete sold accounts")
       ELSE /\ Goto(p, "ad_delete")
            /\ loc' = [loc EXCEPT ![p].code = <<"PRODUCT", accounts[req[p].acc].product_id>>]
    /\ UNCHANGED <<sqlVars, fileVars, nreq, req>>

\* DELETE FROM accounts WHERE id = ?
AccountDeleteRow(p) ==
    /\ pc[p] = "ad_delete"
    /\ accounts' = [a \in DOMAIN accounts \ {req[p].acc} |-> accounts[a]]
    /\ Goto(p, "ad_count")
    /\ UNCHANGED <<orders, codes, productJson, fileVars, nreq, req, loc>>

\* product.json is read; const stock = await Account.getStock(account.product_id)
AccountDeleteCount(p) ==
    /\ pc[p] = "ad_count"
    /\ loc' = [loc EXCEPT ![p].stock = GetStock(loc[p].code[2]), ![p].snap = productJson]
    /\ Goto(p, "ad_write")
    /\ UNCHANGED <<sqlVars, fileVars, nreq, req>>

\* rolesData.roles[productIndex].stock = stock.toString(); the file is written.
AccountDeleteWrite(p) ==
    /\ pc[p] = "ad_write"
    /\ productJson' = IF loc[p].code[2] \in DOMAIN loc[p].snap
                      THEN [loc[p].snap EXCEPT
                               ![loc[p].code[2]].stock = JStr(NumberToString(loc[p].stock))]
                      ELSE productJson
    /\ Finish(p, "200 account deleted")
    /\ UNCHANGED <<orders, codes, accounts, fileVars, nreq, req>>

\* ------------------------------------ POST /pakasir (routes/webhook.js, files)
GenCodes == {<<"GTPS", 1>>, <<"GTPS", 2>>}
\* stock at or below which a stock notification is sent
LowStock == 2
MaxStock == 3

NewFileOrder == [status |-> "pending", amount |-> GoodAmount, redeemCode |-> NoCode,
                 emailSent |-> ""]

FileEvents ==
    [kind : {"filewebhook"}, order : OrderIds \cup {NoOrder, UnknownOrder},
     status : EventStatuses, amount : {GoodAmount, BadAmount, NoAmount},
     acc : {NoAcc}, age : {0}]

\* data/orders.json can be read and written, can be read only, or cannot be
\* read (or parsed) at all.
StoreModes == {"ok", "readonly", "unreadable"}

\* readOrders: the entries of the file; [] when the read or the parse throws.
ReadOrders == IF ordersFile = "unreadable" THEN [o \in {} |-> NewFileOrder] ELSE fileOrders

\* writeOrders(entries): the file after the call; a write that throws is
\* logged and leaves the file as it is.
WriteOrders(entries) == IF ordersFile = "ok" THEN entries ELSE fileOrders

\* The file system starts or stops serving the file.
OrdersFileChanges ==
    /\ \E m \in StoreModes \ {ordersFile} : ordersFile' = m
    /\ UNCHANGED <<sqlVars, fileOrders, roleStock, sideVars, nreq, pc, req, loc, resp>>

\* orders[orderIndex] = {...updatedOrder, <email fields>} on the handler's own
\* copy of the file; writeOrders(orders) then writes the whole copy back.
WithEmail(p, flag) == [loc[p].snap EXCEPT ![req[p].order].emailSent = flag]

\* A variant of the stock section that decrements the stock whatever it is,
\* against which the sign of the stock is checked.
FileStockAlways(p) ==
    /\ roleStock' = roleStock - 1
    /\ IF roleStock - 1 <= LowStock
       THEN /\ Goto(p, "fw_stocknote")
            /\ loc' = [loc EXCEPT ![p] = NoLoc]
       ELSE Finish(p, "200 received")

\* The stock section: roles.json is read, decremented when positive and
\* written back; at or below LowStock the handler awaits a stock notification.
\* The handler's copy of orders.json is not used again.
FileStock(p) ==
    /\ roleStock' = IF roleStock > 0 THEN roleStock - 1 ELSE roleStock
    /\ IF roleStock > 0 /\ roleStock - 1 <= LowStock
       THEN /\ Goto(p, "fw_stocknote")
            /\ loc' = [loc EXCEPT ![p] = NoLoc]
       ELSE Finish(p, "200 received")

\* The request arrives. Everything up to the first await runs in one piece:
\* the field check, readOrders, the amount check, the already-completed
\* check, generateRedeemCode and the write of the completed order; for
\* another status, the write of that status when it differs.
FileWebhookStart(p) ==
    /\ \E ev \in FileEvents, g \in GenCodes :
        /\ Accept(p, ev)
        /\ LET file == ReadOrders IN
           IF ev.order = NoOrder \/ ev.amount = NoAmount
           THEN Finish(p, "400 invalid data") /\ UNCHANGED fileOrders
           ELSE IF ev.order \notin DOMAIN file
           THEN Finish(p, "200 order not found") /\ UNCHANGED fileOrders
           ELSE IF file[ev.order].amount # ev.amount
           THEN Finish(p, "400 amount mismatch") /\ UNCHANGED fileOrders
           ELSE IF ev.status # "completed"
           THEN /\ fileOrders' = IF file[ev.order].status # ev.status
                                 THEN WriteOrders([file EXCEPT ![ev.order].status = ev.status])
                                 ELSE fileOrders
                /\ Finish(p, "200 received")
           ELSE IF file[ev.order].status = "completed"
           THEN Finish(p, "200 already processed") /\ UNCHANGED fileOrders
           ELSE LET mine == [file EXCEPT ![ev.order].status = "completed",
                                         ![ev.order].redeemCode = g] IN
                /\ fileOrders' = WriteOrders(mine)
                /\ loc' = [loc EXCEPT ![p].snap = mine, ![p].code = g]
                /\ Goto(p, "fw_email")
    /\ UNCHANGED <<roleStock, ordersFile, sideVars, sqlVars>>

\* await whatsappBot.sendRedeemCode(...) settles: sent, refused, or thrown.
\* After a throw the catch writes the error and the stock section follows.
FileWebhookEmail(p) ==
    /\ pc[p] = "fw_email"
    /\ \/ /\ \E flag \in {"yes", "no"} :
                /\ fileOrders' = WriteOrders(WithEmail(p, flag))
                /\ loc' = [loc EXCEPT ![p].snap = WithEmail(p, flag)]
          /\ Goto(p, "fw_notify")
          /\ UNCHANGED roleStock
       \/ /\ fileOrders' = WriteOrders(WithEmail(p, "error"))
          /\ FileStock(p)
    /\ UNCHANGED <<sqlVars, ordersFile, sideVars, nreq, req>>

\* await whatsappBot.sendOrderNotification(adminData) settles, or throws and
\* the catch writes the error; the stock section follows in the same turn.
FileWebhookNotify(p) ==
    /\ pc[p] = "fw_notify"
    /\ \/ UNCHANGED fileOrders
       \/ fileOrders' = WriteOrders(WithEmail(p, "error"))
    /\ FileStock(p)
    /\ UNCHANGED <<sqlVars, ordersFile, sideVars, nreq, req>>

\* await whatsappBot.sendStockNotification(name) settles; res.json({received: true})
FileWebhookStockNote(p) ==
    /\ pc[p] = "fw_stocknote"
    /\ Finish(p, "200 received")
    /\ UNCHANGED <<fileVars, sqlVars, nreq, req>>

\* --------------------------- POST /resend-email/:orderId (routes/webhook.js)
ResendRequests ==
    {[NoReq EXCEPT !.kind = "resend", !.order = o] : o \in OrderIds \cup {UnknownOrder}}

\* The request arrives: readOrders, the order is looked up and tested, and
\* the handler awaits whatsappBot.sendRedeemCode with its copy of the file.
\* (Every entry of orders.json carries the customer's address.)
ResendStart(p) ==
    /\ \E r \in ResendRequests :
        /\ Accept(p, r)
        /\ LET file == ReadOrders IN
           IF r.order \notin DOMAIN file
           THEN Finish(p, "404 order not found")
           ELSE IF file[r.order].status # "completed"
           THEN Finish(p, "400 order not completed")
           ELSE IF file[r.order].redeemCode = NoCode
           THEN Finish(p, "400 no redeem code")
           ELSE /\ loc' = [loc EXCEPT ![p].snap = file]
                /\ Goto(p, "rs_send")
    /\ UNCHANGED <<fileVars, sqlVars>>

\* The send settles. Sent: orders[orderIndex] = {...order, emailSent: true, ...}
\* on the handler's copy, and writeOrders(orders). Refused or thrown: 500.
ResendSettle(p) ==
    /\ pc[p] = "rs_send"
    /\ \/ /\ fileOrders' = WriteOrders(WithEmail(p, "yes"))
          /\ Finish(p, "200 email resent")
       \/ /\ Finish(p, "500 failed to send email")
          /\ UNCHANGED fileOrders
    /\ UNCHANGED <<sqlVars, roleStock, ordersFile, sideVars, nreq, req>>

\* ----------------------------------- POST /api/whatsapp/send-redeem (server.js)
SendRedeemRequests ==
    {[NoReq EXCEPT !.kind = "sendredeem", !.order = o] :
        o \in OrderIds \cup {NoOrder, UnknownOrder}}

\* The request arrives: the file is read with fs.readFileSync (a file that
\* cannot be read throws into the catch), the order is tested and the handler
\* awaits whatsappBot.sendRedeemCode.
SendRedeemStart(p) ==
    /\ \E r \in SendRedeemRequests :
        /\ Accept(p, r)
        /\ IF r.order = NoOrder
           THEN Finish(p, "200 failure: order id required")
           ELSE IF ordersFile = "unreadable"
           THEN Finish(p, "200 failure: error")
           ELSE IF r.order \notin DOMAIN fileOrders
           THEN Finish(p, "200 failure: order not found")
           ELSE IF fileOrders[r.order].status # "completed"
                   \/ fileOrders[r.order].redeemCode = NoCode
           THEN Finish(p, "200 failure: order not completed or no redeem code")
           ELSE /\ loc' = [loc EXCEPT ![p].snap = fileOrders]
                /\ Goto(p, "sr_send")
    /\ UNCHANGED <<fileVars, sqlVars>>

\* The send settles. Resolved: orders.map(...) marks the order in the copy
\* read before the await (whatsappSent, whatsappSentAt, emailMessageId; the
\* status, the code and the email fields are those of the copy) and
\* fs.writeFileSync writes the copy; a write that throws is caught as a
\* rejected send is.
SendRedeemSettle(p) ==
    /\ pc[p] = "sr_send"
    /\ \/ /\ ordersFile = "ok"
          /\ fileOrders' = loc[p].snap
          /\ Finish(p, "200 redeem code sent")
       \/ /\ Finish(p, "200 failure: error")
          /\ UNCHANGED fileOrders
    /\ UNCHANGED <<sqlVars, roleStock, ordersFile, sideVars, nreq, req>>

\* ------------------------------------------------ news (routes/admin/news.js)
\* entries the history keeps: news.history.slice(0, 20)
HistoryLimit == 20

\* null in the active slot
NoNews == [id |-> 0, isActive |-> FALSE, deactivated |-> FALSE]

\* the file readNews creates
DefaultNews == [active |-> NoNews, history |-> <<>>]

\* A variant of the slice that keeps every entry, against which the length of
\* the history is checked.
KeepAll(h) == h

\* history.slice(0, 20)
KeepRecent(h) == SubSeq(h, 1, IF Len(h) < HistoryLimit THEN Len(h) ELSE HistoryLimit)

\* {...item, deactivatedAt: now}
Retire(item) == [item EXCEPT !.deactivated = TRUE]

\* history.unshift(item), then the slice
Unshift(h, item) == KeepRecent(<<item>> \o h)

\* isActive of the body: true, another truthy value, or false or missing;
\* "untitled" is a body without title or message.
NewsCreateRequests ==
    {[NoReq EXCEPT !.kind = "newscreate", !.status = b] :
        b \in {"active", "truthy", "inactive", "untitled"}}

\* POST /: the handler has no await. The id is Date.now(): later than the ids
\* in the file, and the same for two requests of one millisecond.
NewsCreate(p) ==
    /\ \E r \in NewsCreateRequests, d \in {1, 2} :
        /\ Accept(p, [r EXCEPT !.acc = HistoryLimit + 1 + nreq + d])
        /\ IF r.status = "untitled"
           THEN Finish(p, "400 title and message are required") /\ UNCHANGED news
           ELSE LET newNews == [id |-> HistoryLimit + 1 + nreq + d,
                                isActive |-> r.status = "active",
                                deactivated |-> FALSE] IN
                /\ news' = IF r.status \in {"active", "truthy"}
                           THEN [active |-> newNews,
                                 history |-> IF news.active # NoNews
                                             THEN Unshift(news.history, Retire(news.active))
                                             ELSE news.history]
                           ELSE [active |-> news.active,
                                 history |-> Unshift(news.history, Retire(newNews))]
                /\ Finish(p, "200 news saved")
    /\ UNCHANGED <<sqlVars, fileOrders, roleStock, ordersFile, bot>>

NewsDeactivateRequests == {[NoReq EXCEPT !.kind = "newsdeactivate"]}

\* POST /deactivate
NewsDeactivate(p) ==
    /\ \E r \in NewsDeactivateRequests : Accept(p, r)
    /\ IF news.active # NoNews
       THEN /\ news' = [active |-> NoNews,
                        history |-> Unshift(news.history, Retire(news.active))]
            /\ Finish(p, "200 news deactivated")
       ELSE Finish(p, "200 no active news") /\ UNCHANGED news
    /\ UNCHANGED <<sqlVars, fileOrders, roleStock, ordersFile, bot>>

\* ids a delete may name: none of the file, its first or its last entry
DeletableIds ==
    {0} \cup (IF news.history = <<>> THEN {}
              ELSE {news.history[1].id, news.history[Len(news.history)].id})

\* history.filter(item => item.id !== id)
WithoutId(h, id) == SelectSeq(h, LAMBDA item : item.id # id)

\* DELETE /history/:id
NewsDeleteHistory(p) ==
    /\ \E id \in DeletableIds :
        /\ Accept(p, [NoReq EXCEPT !.kind = "newsdelete", !.acc = id])
        /\ news' = [news EXCEPT !.history = WithoutId(@, id)]
    /\ Finish(p, "200 news deleted")
    /\ UNCHANGED <<sqlVars, fileOrders, roleStock, ordersFile, bot>>

\* ------------------------------------- mail service (models/WhatsAppBot.js)
\* this.maxRetries
MaxRetries == 5
\* sends of initialize() that have not settled, and timers that will call
\* initialize(), at one time
MaxPending == 2
MaxTimers == 2

\* The service after its constructor, which calls initialize(): the test mail
\* is on its way with its 10-second timer armed. armed counts the sends in
\* flight whose timer is armed, late those whose timer has fired, timers the
\* setTimeout calls that will call initialize().
NewBot == [isReady |-> FALSE, initializing |-> TRUE, retryCount |-> 0,
           armed |-> 1, late |-> 0, timers |-> 0]

\* initialize(): nothing when an attempt is marked as running; else the flag
\* is set, the timer armed and the test mail sent.
Initialize(b) ==
    IF b.initializing THEN b
    ELSE [b EXCEPT !.initializing = TRUE, !.armed = @ + 1]

\* handleFailure(reason)
HandleFailure(b) ==
    IF b.retryCount + 1 <= MaxRetries
    THEN [b EXCEPT !.retryCount = @ + 1, !.timers = @ + 1]
    ELSE [b EXCEPT !.retryCount = @ + 1, !.isReady = FALSE, !.initializing = FALSE]

\* restart()
Restart(b) ==
    [b EXCEPT !.isReady = FALSE, !.initializing = FALSE, !.retryCount = 0,
              !.timers = @ + 1]

\* The service moves to b within the bounds; nothing else changes.
BotBecomes(b) ==
    /\ b.armed + b.late <= MaxPending
    /\ b.timers <= MaxTimers
    /\ bot' = b
    /\ UNCHANGED <<sqlVars, fileOrders, roleStock, ordersFile, news, nreq, pc, req, loc, resp>>

\* The test mail is sent: .then clears the timer and marks the service ready.
SendResolves ==
    \E k \in {"armed", "late"} :
        /\ bot[k] > 0
        /\ BotBecomes([bot EXCEPT ![k] = @ - 1, !.isReady = TRUE, !.retryCount = 0,
                                  !.initializing = FALSE])

\* The send fails: .catch clears the timer, resets the flags, handleFailure.
SendRejects ==
    \E k \in {"armed", "late"} :
        /\ bot[k] > 0
        /\ BotBecomes(HandleFailure([bot EXCEPT ![k] = @ - 1, !.isReady = FALSE,
                                                !.initializing = FALSE]))

\* The 10-second timer fires before the send has settled:
\* this.handleFailure('timeout').
TimeoutFires ==
    /\ bot.armed > 0
    /\ BotBecomes(HandleFailure([bot EXCEPT !.armed = @ - 1, !.late = @ + 1]))

\* A timer of handleFailure or of restart fires: this.initialize().
RetryFires ==
    /\ bot.timers > 0
    /\ BotBecomes(Initialize([bot EXCEPT !.timers = @ - 1]))

\* The setInterval of 60 seconds: restart() when the service is neither ready
\* nor initializing.
AutoRecovery ==
    /\ ~bot.isReady
    /\ ~bot.initializing
    /\ BotBecomes(Restart(bot))

\* ---------------------------------------------------------------- system
InitProcs ==
    /\ nreq = 0
    /\ pc = [p \in Procs |-> "idle"]
    /\ req = [p \in Procs |-> NoReq]
    /\ loc = [p \in Procs |-> NoLoc]
    /\ resp = [p \in Procs |-> ""]

\* The database holds pending orders, n codes and the accounts.
Init ==
    /\ InitProcs
    /\ orders = [o \in OrderIds |-> NewOrder]
    /\ \E n \in 0..MaxCodes : codes = [c \in {CodeName(i) : i \in 1..n} |-> NewCode]
    /\ accounts = [a \in AccIds |-> NewAccount]
    /\ productJson = [i \in ProductIds |->
                        NewProduct(JStr(NumberToString(IF i = Role THEN MaxAccounts ELSE 0)))]
    /\ fileOrders = [o \in OrderIds |-> NewFileOrder]
    /\ roleStock = MaxStock
    /\ ordersFile = "ok"
    /\ news = DefaultNews
    /\ bot = NewBot

\* orders.json holds pending orders and roles.json some stock of the role.
\* No route of the repository adds an entry to orders.json (the server creates
\* it empty); its entries are taken as given.
FileInit ==
    /\ InitProcs
    /\ orders = [o \in OrderIds |-> NewOrder]
    /\ codes = [c \in Codes |-> NewCode]
    /\ accounts = [a \in AccIds |-> NewAccount]
    /\ productJson = [i \in ProductIds |->
                        NewProduct(JStr(NumberToString(IF i = Role THEN MaxAccounts ELSE 0)))]
    /\ fileOrders = [o \in OrderIds |-> NewFileOrder]
    /\ roleStock \in 0..MaxStock
    /\ ordersFile = "ok"
    /\ news = DefaultNews
    /\ bot = NewBot

Step(p) ==
        \/ WebhookStart(p)
        \/ WebhookGetCode(p)
        \/ WebhookMark(p)
        \/ WebhookComplete(p)
        \/ WebhookEmail(p)
        \/ WebhookNoStock(p)
        \/ WebhookPending(p)
        \/ WebhookOther(p)
        \/ ManualStart(p)
        \/ ManualGetAccount(p)
        \/ ManualSelect(p)
        \/ ManualMarkSold(p)
        \/ ManualCompleteOrder(p)
        \/ ManualEmail(p)
        \/ ManualStock(p)
        \/ AdminCancelStart(p)
        \/ AdminCancelUpdate(p)
        \/ CancelStart(p)
        \/ CancelUpdate(p)
        \/ SimulateStart(p)
        \/ SimulateUpdate(p)
        \/ ExpiryStart(p)
        \/ ExpiryUpdate(p)
        \/ AccountPutStart(p)
        \/ AccountPutCheck(p)
        \/ Deliver(p)

\* Requests overlap: any handler in flight may take the next step.
Next == \E p \in Procs : Step(p)

Spec == Init /\ [][Next]_vars

\* Requests arrive one after the other: a handler runs to its response, and
\* the response is delivered, before the next request is accepted.
SeqNext == \E p \in Procs : (\A q \in Procs \ {p} : Quiet(q)) /\ Step(p)

SpecSeq == Init /\ [][SeqNext]_vars

\* values the stock of a catalog entry may hold before a sync
CacheValues ==
    {JMissing, JStr(<<>>), JStr(<<"0">>), JStr(<<"1">>), JStr(<<"2">>), JStr(<<"a">>),
     JStr(<<"1", "a">>), JNum(0), JNum(2)}

\* Some accounts of the product, available or sold; any stock in the catalog.
SyncInit ==
    /\ InitProcs
    /\ orders = [o \in OrderIds |-> NewOrder]
    /\ codes = [c \in Codes |-> NewCode]
    /\ \E n \in 0..MaxAccounts :
          accounts \in [1..n -> {NewAccount, [NewAccount EXCEPT !.status = "sold",
                                     !.sold_to = Customer, !.order_id = OrderName(1)]}]
    /\ \E v \in CacheValues, w \in {JStr(<<"0">>), JStr(<<"a">>), JMissing} :
          productJson = [i \in ProductIds |->
                            NewProduct(IF i = Role THEN v ELSE w)]
    /\ fileOrders = [o \in OrderIds |-> NewFileOrder]
    /\ roleStock = MaxStock
    /\ ordersFile = "ok"
    /\ news = DefaultNews
    /\ bot = NewBot

\* Stock syncs, stock reports, catalog edits and account deletions, overlapping.
SyncNext ==
    \E p \in Procs :
        \/ SyncStart(p)
        \/ SyncUpdate(p)
        \/ ReportStart(p)
        \/ ReportRead(p)
        \/ ProductPut(p)
        \/ AccountDeleteStart(p)
        \/ AccountDeleteCheck(p)
        \/ AccountDeleteRow(p)
        \/ AccountDeleteCount(p)
        \/ AccountDeleteWrite(p)
        \/ Deliver(p)

SpecSync == SyncInit /\ [][SyncNext]_vars

\* The orders table is empty; orders.json is as the server created it, empty,
\* or holds entries put there by hand.
CreateInit ==
    /\ InitProcs
    /\ orders = [o \in {} |-> NewOrder]
    /\ codes = [c \in Codes |-> NewCode]
    /\ accounts = [a \in AccIds |-> NewAccount]
    /\ productJson = [i \in ProductIds |->
                        NewProduct(JStr(NumberToString(IF i = Role THEN MaxAccounts ELSE 0)))]
    /\ \E S \in SUBSET OrderIds : fileOrders = [o \in S |-> NewFileOrder]
    /\ roleStock = MaxStock
    /\ ordersFile = "ok"
    /\ news = DefaultNews
    /\ bot = NewBot

\* Order creation next to the file-backed webhook.
CreateNext ==
    \E p \in Procs :
        \/ CreateStart(p)
        \/ CreateInsert(p)
        \/ FileWebhookStart(p)
        \/ FileWebhookEmail(p)
        \/ FileWebhookNotify(p)
        \/ FileWebhookStockNote(p)
        \/ Deliver(p)

SpecCreate == CreateInit /\ [][CreateNext]_vars

\* Stock syncs of both variants, with an inventory source that may fail.
JsonSyncNext ==
    \E p \in Procs :
        \/ SyncStart(p)
        \/ SyncUpdate(p)
        \/ SyncReadFails(p)
        \/ JsonSync(p)
        \/ Deliver(p)

SpecJsonSync == SyncInit /\ [][JsonSyncNext]_vars

\* Manual completions next to account deletions, overlapping.
DeleteNext ==
    \E p \in Procs :
        \/ ManualStart(p)
        \/ ManualGetAccount(p)
        \/ ManualSelect(p)
        \/ ManualMarkSold(p)
        \/ ManualCompleteOrder(p)
        \/ ManualEmail(p)
        \/ ManualStock(p)
        \/ AccountDeleteStart(p)
        \/ AccountDeleteCheck(p)
        \/ AccountDeleteRow(p)
        \/ AccountDeleteCount(p)
        \/ AccountDeleteWrite(p)
        \/ Deliver(p)

SpecDelete == Init /\ [][DeleteNext]_vars

\* A stock value that is a count: a number that is a natural number, or the
\* decimal numeral of one, as toString writes it.
IsCount(v) ==
    \/ v.t = "number" /\ v.n \in Nat
    \/ /\ v.t = "string"
       /\ ~ParseInt(v).nan
       /\ ParseInt(v).n \in Nat
       /\ v.s = NumberToString(ParseInt(v).n)

\* Some available accounts of the product; product.json and roles.json hold
\* counts, as the server creates them and as the sync and the webhook leave
\* them.
StockInit ==
    /\ InitProcs
    /\ orders = [o \in OrderIds |-> NewOrder]
    /\ codes = [c \in Codes |-> NewCode]
    /\ \E n \in 0..MaxAccounts : accounts = [a \in 1..n |-> NewAccount]
    /\ \E v \in {c \in CacheValues : IsCount(c)} :
          productJson = [i \in ProductIds |->
                            NewProduct(IF i = Role THEN v ELSE JStr(<<"0">>))]
    /\ fileOrders = [o \in OrderIds |-> NewFileOrder]
    /\ roleStock \in 0..MaxStock
    /\ ordersFile = "ok"
    /\ news = DefaultNews
    /\ bot = NewBot

\* A completion event with the amount of its order reaches the file-backed
\* webhook.
CompletionStart(p) ==
    /\ FileWebhookStart(p)
    /\ req'[p].status = "completed"
    /\ req'[p].amount = GoodAmount

\* Webhook completions and stock syncs, overlapping.
StockNext ==
    \E p \in Procs :
        \/ CompletionStart(p)
        \/ FileWebhookEmail(p)
        \/ FileWebhookNotify(p)
        \/ FileWebhookStockNote(p)
        \/ SyncStart(p)
        \/ SyncUpdate(p)
        \/ Deliver(p)

SpecStock == StockInit /\ [][StockNext]_vars

\* Calls of RedeemCode.markAsUsed and RedeemCode.delete, overlapping.
CodesNext ==
    \E p \in Procs :
        \/ MarkUsedRun(p)
        \/ MarkUsedResult(p)
        \/ CodeDelete(p)
        \/ Deliver(p)

SpecCodes == Init /\ [][CodesNext]_vars

\* news.json as it is after some items were created: a history of k retired
\* items and, at times, an active item created after them.
NewsInit ==
    /\ InitProcs
    /\ orders = [o \in OrderIds |-> NewOrder]
    /\ codes = [c \in Codes |-> NewCode]
    /\ accounts = [a \in AccIds |-> NewAccount]
    /\ productJson = [i \in ProductIds |->
                        NewProduct(JStr(NumberToString(IF i = Role THEN MaxAccounts ELSE 0)))]
    /\ fileOrders = [o \in OrderIds |-> NewFileOrder]
    /\ roleStock = MaxStock
    /\ ordersFile = "ok"
    /\ bot = NewBot
    /\ \E k \in {0, 1, HistoryLimit - 1, HistoryLimit}, a \in BOOLEAN :
          news = [active |-> IF a THEN [id |-> k + 1, isActive |-> TRUE,
                                        deactivated |-> FALSE]
                             ELSE NoNews,
                  history |-> [i \in 1..k |-> [id |-> k + 1 - i, isActive |-> FALSE,
                                               deactivated |-> TRUE]]]

\* The news routes; none of them has an await.
NewsNext ==
    \E p \in Procs :
        \/ NewsCreate(p)
        \/ NewsDeactivate(p)
        \/ NewsDeleteHistory(p)
        \/ Deliver(p)

SpecNews == NewsInit /\ [][NewsNext]_vars

\* The mail service on its own.
BotInit == Init /\ DOMAIN codes = Codes

BotNext == SendResolves \/ SendRejects \/ TimeoutFires \/ RetryFires \/ AutoRecovery

\* Timers fire; nothing makes the send of the test mail settle.
SpecBot ==
    /\ BotInit
    /\ [][BotNext]_vars
    /\ WF_vars(TimeoutFires)
    /\ WF_vars(RetryFires)
    /\ WF_vars(AutoRecovery)

\* The server starts: the first thing to run is the initial stock
\* synchronisation of server.js; requests are served from then on.
BootSync == nreq = 0 /\ \E p \in Procs : SyncStart(p)

\* A handler that has been started takes its next step.
SyncContinue ==
    \E p \in Procs :
        \/ SyncUpdate(p)
        \/ ReportRead(p)
        \/ AccountDeleteCheck(p)
        \/ AccountDeleteRow(p)
        \/ AccountDeleteCount(p)
        \/ AccountDeleteWrite(p)
        \/ Deliver(p)

\* A request of an operator arrives.
SyncArrival ==
    /\ nreq > 0
    /\ \E p \in Procs :
          \/ SyncStart(p)
          \/ ReportStart(p)
          \/ ProductPut(p)
          \/ AccountDeleteStart(p)

SyncLiveNext == BootSync \/ SyncContinue \/ SyncArrival

\* The initial synchronisation is run and every started handler runs on;
\* nothing makes a request arrive. The server has no timer that calls
\* syncStock.
SpecSyncLive ==
    /\ SyncInit
    /\ [][SyncLiveNext]_vars
    /\ WF_vars(BootSync)
    /\ WF_vars(SyncContinue)

\* The file-backed webhook, deliveries overlapping.
FileNext ==
    \E p \in Procs :
        \/ FileWebhookStart(p)
        \/ FileWebhookEmail(p)
        \/ FileWebhookNotify(p)
        \/ FileWebhookStockNote(p)
        \/ Deliver(p)

SpecFile == FileInit /\ [][FileNext]_vars

\* The file-backed webhook while the file system starts and stops serving
\* orders.json; the role has its full stock.
StoreInit == FileInit /\ roleStock = MaxStock

StoreNext == FileNext \/ OrdersFileChanges

SpecStore == StoreInit /\ [][StoreNext]_vars

\* The file-backed webhook next to the two routes that send the code of a
\* completed order again; the role has its full stock.
ResendNext ==
    \E p \in Procs :
        \/ FileWebhookStart(p)
        \/ FileWebhookEmail(p)
        \/ FileWebhookNotify(p)
        \/ FileWebhookStockNote(p)
        \/ ResendStart(p)
        \/ ResendSettle(p)
        \/ SendRedeemStart(p)
        \/ SendRedeemSettle(p)
        \/ Deliver(p)

SpecResend == StoreInit /\ [][ResendNext]_vars

\* N + k payment events for N + k different pending orders, each delivered once
\* while its order is pending, and nothing else.
RushStart(p) ==
    /\ WebhookStart(p)
    /\ req'[p].status = "completed"
    /\ req'[p].amount = GoodAmount
    /\ OrderExists(req'[p].order)
    /\ orders[req'[p].order].status = "pending"
    /\ \A q \in Procs \ {p} : req[q].order # req'[p].order

RushNext ==
    \E p \in Procs :
        \/ RushStart(p)
        \/ WebhookGetCode(p)
        \/ WebhookMark(p)
        \/ WebhookComplete(p)
        \/ WebhookEmail(p)
        \/ WebhookNoStock(p)
        \/ Deliver(p)

SpecRush == Init /\ [][RushNext]_vars

\* ------------------------------------------------------------------ properties
Running(p) == pc[p] \notin {"idle", "replied"}

WebhookRunning(p) == req[p].kind = "webhook" /\ Running(p)

ManualRunning(p) == req[p].kind = "manual" /\ Running(p)

\* Account.markAsSold has returned loc[p].acc to the completion handler.
ManualHolds(p) == req[p].kind = "manual" /\ pc[p] \in {"mc_order", "mc_email", "mc_stock"}

CodesBoundTo(o) == {c \in DOMAIN codes : codes[c].used /\ codes[c].orderId = o}

CodesBoundAfter(o) == {c \in DOMAIN codes' : codes'[c].used /\ codes'[c].orderId = o}

AccountsBoundTo(o) ==
    {a \in DOMAIN accounts : accounts[a].status = "sold" /\ accounts[a].order_id = o}

CompletedOrders == {o \in DOMAIN orders : orders[o].status = "completed"}

AllQuiet == \A p \in Procs : Quiet(p)

Min(a, b) == IF a <= b THEN a ELSE b

\* C1 (sequential idempotency): a completed event with the right amount that
\* is delivered after an earlier delivery has completed the order and bound a
\* code to it (the order it finds is completed and names that code) allocates nothing, changes no stored record, and is answered as
\* already processed.
C1_SequentialIdempotency ==
    [][\A p \in Procs :
          ( /\ WebhookRunning(p)
            /\ req[p].status = "completed"
            /\ req[p].amount = orders[req[p].order].amount
            /\ loc[p].ostatus = "completed"
            /\ loc[p].ocode \in CodesBoundTo(req[p].order) )
          => /\ orders' = orders
             /\ codes' = codes
             /\ accounts' = accounts
             /\ (pc'[p] = "replied" => resp'[p] = "200 already processed")]_vars

\* C2 (concurrent idempotency): while two deliveries of the completed event
\* for one order are in flight, both having found the order pending, no step
\* leaves more than one code bound to the order, and an order left completed
\* names the code that is bound to it.
C2_ConcurrentIdempotency ==
    [][\A p, q \in Procs :
          ( /\ p # q
            /\ WebhookRunning(p) /\ WebhookRunning(q)
            /\ req[p].order = req[q].order
            /\ req[p].status = "completed" /\ req[q].status = "completed"
            /\ loc[p].ostatus = "pending" /\ loc[q].ostatus = "pending" )
          => /\ Cardinality(CodesBoundAfter(req[p].order)) <= 1
             /\ (orders'[req[p].order].status = "completed"
                   => orders'[req[p].order].redeemCode \in CodesBoundAfter(req[p].order))]_vars

\* C3 (no double allocation): with N codes in stock and one completed event
\* for each of N + k pending orders, no code is recorded on two orders; every
\* completed order names a code bound to it; and once all events are handled
\* exactly N orders are completed and the other k are failed for want of stock.
C3_NoDoubleAllocation ==
    /\ \A o1, o2 \in DOMAIN orders :
          (o1 # o2 /\ orders[o1].redeemCode # NoCode)
             => orders[o1].redeemCode # orders[o2].redeemCode
    /\ \A o \in CompletedOrders : orders[o].redeemCode \in CodesBoundTo(o)
    /\ (AllQuiet /\ \A o \in DOMAIN orders : orders[o].status # "pending")
          => /\ Cardinality(CompletedOrders)
                  = Min(Cardinality(DOMAIN codes), Cardinality(DOMAIN orders))
             /\ \A o \in DOMAIN orders \ CompletedOrders :
                   /\ orders[o].status = "failed"
                   /\ orders[o].failedReason = "Out of stock"

\* C4 (markAsSold atomicity): two calls of Account.markAsSold that are both
\* in their callers' hands never returned the same account row.
C4_MarkAsSoldAtomic ==
    \A p, q \in Procs :
        (p # q /\ ManualHolds(p) /\ ManualHolds(q)) => loc[p].acc # loc[q].acc

\* C5 (conflict safety): when a manual completion and a webhook delivery race
\* for one order that both found pending, the order record written by the
\* first of them (status and unit references) is not changed by the other.
C5_ConflictSafety ==
    [][\A p, q \in Procs :
          ( /\ ManualRunning(p)
            /\ WebhookRunning(q)
            /\ req[q].status = "completed"
            /\ loc[q].ostatus = "pending"
            /\ req[p].order = req[q].order
            /\ orders[req[p].order].status = "completed" )
          => orders'[req[p].order] = orders[req[p].order]]_vars

\* C6 (amount integrity): no step of a delivery whose amount differs from the
\* order's amount changes an order or an inventory unit.
C6_AmountIntegrity ==
    [][\A p \in Procs :
          ( /\ WebhookRunning(p)
            /\ req[p].amount # orders[req[p].order].amount
            /\ pc'[p] # pc[p] )
          => /\ orders' = orders
             /\ codes' = codes
             /\ accounts' = accounts]_vars

\* C7 (terminal states are absorbing): the status of an order that is
\* completed, failed, cancelled or expired is never changed by any step.
C7_TerminalAbsorbing ==
    [][\A o \in DOMAIN orders :
          orders[o].status \in TerminalStatuses
             => orders'[o].status = orders[o].status]_vars

\* C8: an order carries a reference to an allocated unit (redeemCode or
\* accountData) exactly when its status is completed.
C8_UnitReferenceIffCompleted ==
    \A o \in DOMAIN orders :
        (orders[o].redeemCode # NoCode \/ orders[o].accountData # NoAcc)
           <=> orders[o].status = "completed"

\* C9: for each order id at most one inventory unit, account row or redeem
\* code, has that id as its bound order id.
C9_OneUnitPerOrder ==
    \A o \in OrderIds :
        Cardinality(CodesBoundTo(o)) + Cardinality(AccountsBoundTo(o)) <= 1

\* C10: a sold account or used code never becomes available again and the
\* order id bound to it never changes.
C10_SoldUnitsStaySold ==
    [][/\ \A a \in DOMAIN accounts :
             accounts[a].status = "sold"
                => /\ accounts'[a].status = "sold"
                   /\ accounts'[a].order_id = accounts[a].order_id
       /\ \A c \in DOMAIN codes :
             codes[c].used
                => /\ codes'[c].used
                   /\ codes'[c].orderId = codes[c].orderId]_vars

\* ------------------------------------------------------------ stock sync
\* the cached stock v is the number n, as a JSON number or its decimal string
StockIs(v, n) ==
    /\ v.t \in {"string", "number"}
    /\ StringOf(v) = NumberToString(n)

\* available accounts of a product, 0 for a product without accounts
AvailableCount(i) == Cardinality(AvailableAccounts(i))

SyncRunning(p) == pc[p] = "sy_update"

\* C11 (reconciliation convergence): when syncStock finishes and the accounts
\* did not change since it counted them, the cached stock of every product is
\* its number of available accounts (0 without accounts), whatever the cached
\* value was before, missing and non-numeric values included.
C11_ReconciliationConvergence ==
    [][\A p \in Procs :
          (SyncUpdate(p) /\ loc[p].stats = DbStats)
              => \A i \in DOMAIN productJson' :
                     StockIs(productJson'[i].stock, AvailableCount(i))]_vars

\* p is about to finish the second of two stock syncs: the two syncs are the
\* only requests the server has had, and the sync of q has replied.
SecondSync(p, q) ==
    /\ p # q
    /\ nreq = 2
    /\ pc[q] = "replied" /\ req[q].kind = "sync"
    /\ SyncRunning(p)

\* C12 (reconciliation idempotence): the second of two syncStock runs in a
\* row, with no change of the accounts or of the catalog between them, reports
\* updated = false and leaves product.json as it is.
C12_ReconciliationIdempotence ==
    [][\A p, q \in Procs :
          (SecondSync(p, q) /\ SyncUpdate(p))
              => /\ resp'[p] = "200 synchronized, no changes"
                 /\ productJson' = productJson]_vars

\* Two syncs have replied, the first with updates and the second without.
C12_Witness ==
    /\ nreq = 2
    /\ \E p, q \in Procs :
          /\ p # q
          /\ pc[p] = "replied" /\ req[p].kind = "sync"
          /\ pc[q] = "replied" /\ req[q].kind = "sync"
          /\ resp[q] = "200 synchronized, updated"
          /\ resp[p] = "200 synchronized, no changes"

\* the step is one of a request of the given kinds
StepOf(p, kinds) == pc[p] # pc'[p] /\ (req[p].kind \in kinds \/ req'[p].kind \in kinds)

\* C13 (single-writer catalog): no step of the handling of a payment event and
\* no step of a manual order completion changes the cached stock of a product
\* in product.json.
C13_SingleWriterCatalog ==
    [][\A p \in Procs :
          StepOf(p, {"webhook", "manual"})
              => \A i \in ProductIds : productJson'[i].stock = productJson[i].stock]_vars

\* the catalog entries with their stock left out
WithoutStock(json) ==
    [i \in DOMAIN json |->
        [name |-> json[i].name, price |-> json[i].price,
         description |-> json[i].description]]

\* C14 (the stock sync touches the cached stock only): no step of syncStock
\* and no step of getDetailedStockReport changes an order, a redeem code or an
\* account; syncStock leaves the set of products and the name, price and
\* description of each as they are; getDetailedStockReport leaves product.json
\* as it is.
C14_SyncTouchesStockOnly ==
    [][\A p \in Procs :
          /\ StepOf(p, {"sync", "report"})
                => /\ UNCHANGED <<orders, codes, accounts, fileOrders, roleStock>>
                   /\ WithoutStock(productJson') = WithoutStock(productJson)
          /\ StepOf(p, {"report"}) => UNCHANGED productJson]_vars

\* A sync has rewritten the stock of a product whose price had been edited,
\* and a report has been sent.
C14_Witness ==
    \E p, q \in Procs :
        /\ pc[p] = "replied" /\ req[p].kind = "sync"
        /\ resp[p] = "200 synchronized, updated"
        /\ pc[q] = "replied" /\ req[q].kind = "report"
        /\ \E i \in ProductIds : productJson[i].price # NewProduct(JMissing).price

\* ---------------------------------------------------- payment events, cont.
\* p takes in an event of the given kind in this step
Arrives(p, kind) == pc[p] = "idle" /\ pc'[p] # "idle" /\ req'[p].kind = kind

\* C15 (out of stock): a completed event with the order's amount, arriving at
\* the file-backed webhook for a pending order whose role has no stock left,
\* leaves the order failed, with no redeem code on it.
C15_OutOfStock ==
    [][\A p \in Procs :
          (/\ Arrives(p, "filewebhook")
           /\ req'[p].status = "completed"
           /\ req'[p].order \in DOMAIN fileOrders
           /\ fileOrders[req'[p].order].status = "pending"
           /\ fileOrders[req'[p].order].amount = req'[p].amount
           /\ roleStock = 0)
              => /\ fileOrders'[req'[p].order].status = "failed"
                 /\ fileOrders'[req'[p].order].redeemCode = NoCode]_vars

\* p replies in this step to a payment event it found the order pending for,
\* the event carrying the order's amount
RepliesToPending(p) ==
    /\ pc[p] # "replied" /\ pc'[p] = "replied"
    /\ req[p].kind = "webhook"
    /\ loc[p].ostatus = "pending"
    /\ req[p].amount = orders[req[p].order].amount

\* C16 (other status tags): when the SQLite webhook has handled, for a pending
\* order, an event with the order's amount whose status is neither completed
\* nor pending, the order is failed and its failure reason is the status tag
\* of the event.
C16_OtherStatusFails ==
    [][\A p \in Procs :
          (/\ RepliesToPending(p)
           /\ req[p].status \notin {"completed", "success", "pending", NoStatus})
              => /\ orders'[req[p].order].status = "failed"
                 /\ orders'[req[p].order].failedReason = req[p].status]_vars

\* C17 (pending event): when the SQLite webhook has handled a pending event
\* for an order it found pending and that is pending when the update runs, the
\* order is pending, no field of an order has changed, and no redeem code and
\* no account has been allocated.
C17_PendingEventNoOp ==
    [][\A p \in Procs :
          (/\ RepliesToPending(p)
           /\ req[p].status = "pending"
           /\ orders[req[p].order].status = "pending")
              => /\ orders'[req[p].order].status = "pending"
                 /\ UNCHANGED <<orders, codes, accounts>>]_vars

\* A pending event for a pending order has been answered.
C17_Witness ==
    \E p \in Procs :
        /\ pc[p] = "replied" /\ resp[p] = "200 received"
        /\ req[p].kind = "webhook" /\ req[p].status = "pending"
        /\ req[p].amount = GoodAmount
        /\ req[p].order \in OrderIds
        /\ orders[req[p].order].status = "pending"

\* C18 (bounded-retry lookup): a handler whose lookup of the order misses
\* does not answer at once: it looks the order up again before it answers
\* that the order was not found.
C18_BoundedRetryLookup ==
    [][\A p \in Procs :
          (/\ Arrives(p, "webhook")
           /\ req'[p].order # NoOrder
           /\ ~OrderExists(req'[p].order))
              => pc'[p] # "replied"]_vars

\* the body lacks the order id, the amount or the status
Malformed(r) ==
    /\ r.kind \in {"webhook", "filewebhook"}
    /\ (r.order = NoOrder \/ r.amount = NoAmount \/ r.status = NoStatus)

\* the request p is handling in this step
Handled(p) == IF pc[p] = "idle" THEN req'[p] ELSE req[p]

\* the answers that tell the gateway the event was refused
Refusals == {"400 missing order_id", "400 invalid data"}

\* C19 (malformed events): an event arriving at the SQLite webhook without an
\* order id, an amount or a status is refused as malformed, and no step of its
\* handling changes an order, a redeem code, an account or the catalog.
C19_MalformedRejected ==
    [][\A p \in Procs :
          (pc[p] # pc'[p] /\ Handled(p).kind = "webhook" /\ Malformed(Handled(p)))
              => /\ UNCHANGED sqlVars
                 /\ pc'[p] = "replied" => resp'[p] \in Refusals]_vars

\* the answers of the webhooks with a status of 400 and above
FailureAnswers == Refusals \cup {"404 order not found", "400 amount mismatch"}

\* C20 (acknowledgment mapping): the SQLite webhook answers an event for an
\* order it does not find with a success status, and answers with a failure
\* status only an event that is malformed or whose amount is not the order's.
C20_AcknowledgmentMapping ==
    [][\A p \in Procs :
          (pc[p] # "replied" /\ pc'[p] = "replied" /\ Handled(p).kind = "webhook")
              => /\ (~Malformed(Handled(p)) /\ ~OrderExists(Handled(p).order))
                        => resp'[p] \notin FailureAnswers
                 /\ resp'[p] \in FailureAnswers
                        => \/ Malformed(Handled(p))
                           \/ /\ OrderExists(Handled(p).order)
                              /\ Handled(p).amount # orders[Handled(p).order].amount]_vars

\* ------------------------------------------------------- notifications
\* In this step a notification of the file-backed webhook p has settled and
\* left the order marked as not sent or in error.
NotificationFails(p) ==
    /\ pc[p] \in {"fw_email", "fw_notify"}
    /\ pc'[p] # pc[p]
    /\ fileOrders'[req[p].order].emailSent \in {"no", "error"}

C23_CancelOnlyFromPending ==
    [][\A p \in Procs :
          (StepOf(p, {"cancel", "admincancel"}) /\ orders' # orders)
              => /\ orders[req[p].order].status = "pending"
                 /\ orders'[req[p].order].status = "cancelled"
                 /\ orders'[req[p].order].redeemCode = orders[req[p].order].redeemCode
                 /\ orders'[req[p].order].accountData = orders[req[p].order].accountData]_vars

\* ------------------------------------------------------ manual completion
\* C24 (the supplied unit): a step of a manual completion that changes an
\* account changes the account whose id the request supplied and no other,
\* and a step that completes the order binds that account to it.
C24_SuppliedUnitIsSold ==
    [][\A p \in Procs :
          StepOf(p, {"manual"})
              => /\ \A a \in DOMAIN accounts :
                        a # req[p].acc => accounts'[a] = accounts[a]
                 /\ orders' # orders
                        => orders'[req[p].order].accountData = req[p].acc]_vars

\* C25 (allocation retry): markAsSold called for an order that already has
\* an account bound to it claims no second account: the accounts, and with
\* them the available count, are after the call what they were before it.
C25_AllocationRetry ==
    [][\A p \in Procs :
          (/\ pc[p] = "mc_sold" /\ pc'[p] # pc[p]
           /\ AccountsBoundTo(req[p].order) # {})
              => /\ accounts' = accounts
                 /\ loc[p].acc \in AccountsBoundTo(req[p].order)]_vars

\* ---------------------------------------------------------- order creation
\* C26 (duplicate order id): a create request whose order id is the id of an
\* order in the table fails, and the table, the existing order with it, is
\* left as it is.
C26_DuplicateOrderIdFails ==
    [][\A p \in Procs :
          (pc[p] = "cr_insert" /\ pc'[p] # pc[p] /\ req[p].order \in DOMAIN orders)
              => /\ resp'[p] = "500 failed to create payment"
                 /\ orders' = orders]_vars

\* A create request has failed on the id of an order that has another amount.
C26_Witness ==
    \E p \in Procs :
        /\ pc[p] = "replied" /\ req[p].kind = "create"
        /\ resp[p] = "500 failed to create payment"
        /\ req[p].order \in DOMAIN orders
        /\ orders[req[p].order].amount # req[p].amount

\* C29 (single source of truth): a payment event that carries the id and the
\* amount of an order created through POST /create is never answered by the
\* file-backed webhook as an event for an order that was not found.
C29_CreatedOrderResolvable ==
    [][\A p \in Procs :
          (/\ Arrives(p, "filewebhook")
           /\ ~Malformed(req'[p])
           /\ req'[p].order \in DOMAIN orders
           /\ req'[p].amount = orders[req'[p].order].amount)
              => resp'[p] # "200 order not found"]_vars

Acknowledgments == {"200 received", "200 order not found", "200 already processed"}

\* C28 (store unavailable): a well-formed payment event that arrives at the
\* file-backed webhook while orders.json cannot be read is not acknowledged:
\* it is answered neither as received nor as an event for an unknown order.
C28_StoreFailureNotAcknowledged ==
    [][\A p \in Procs :
          (/\ Arrives(p, "filewebhook")
           /\ ~Malformed(req'[p])
           /\ ordersFile = "unreadable"
           /\ pc'[p] = "replied")
              => resp'[p] \notin Acknowledgments]_vars

\* ------------------------------------------------- periodic reconciliation
\* the cached stock of every product reads as its available count
Reconciled ==
    \A i \in ProductIds : ParseIntOrZero(productJson[i].stock) = AvailableCount(i)

\* C30 (periodic reconciliation): with the synchronisation run at startup and
\* then again and again by the server itself, the cached stock of every
\* product is, from some moment on, its available count. Runs that use up
\* the requests of the model are left aside, so that a run that ends does not
\* end for want of requests.
C30_DriftEventuallyCorrected == [](nreq < MaxRequests) => <>[]Reconciled

\* ------------------------------------------------------------------- resend
\* The step in which the send of a resend settles and the handler answers.
ResendSettles(p) == pc[p] = "rs_send" /\ pc'[p] = "replied"

FileHandlerStep(p) ==
    /\ req'[p].kind \in {"filewebhook", "resend", "sendredeem"}
    /\ pc'[p] # pc[p]
    /\ pc'[p] # "idle"

C33_ReportAgreesWithSync ==
    [][\A p \in Procs :
          (pc[p] = "rp_read" /\ pc'[p] = "replied")
              => \A i \in DOMAIN productJson :
                    NeedsUpdate(productJson[i], i, loc[p].stats)
                        <=> NeedsWrite(productJson[i], i, loc[p].stats)]_vars

\* ------------------------------------------------- notification after write
\* Handler p of the file-backed webhook calls whatsappBot.sendRedeemCode with
\* the code it generated: the step that ends at the await of the send.
SendsCode(p) == pc[p] = "idle" /\ pc'[p] = "fw_email"

C35_UnreadableInventoryKeepsStock ==
    [][\A p \in Procs :
          (pc[p] = "idle" /\ req'[p].kind \in {"sync", "jsonsync"}
                /\ req'[p].status = "unreadable")
              => /\ \A i \in DOMAIN productJson :
                       productJson'[i].stock = productJson[i].stock
                 /\ resp'[p] = "200 sync failed"]_vars

\* ---------------------------------------------------------- account deletion
\* C36: a sold account is never deleted: no step removes a row of the accounts
\* table whose status is sold, also when the account is sold between the
\* status check of a delete and its DELETE statement.
C36_SoldAccountNeverDeleted ==
    [][\A a \in DOMAIN accounts :
          accounts[a].status = "sold" => a \in DOMAIN accounts']_vars

\* ------------------------------------------------------- sign of the stock
\* C37: in every state reached through webhook completions and stock syncs,
\* overlapping in any way, the stock of the role in roles.json and the stock
\* of every product in product.json is a non-negative integer (a number, or
\* the numeral the sync writes).
C37_StockNonNegative ==
    /\ roleStock \in Nat
    /\ \A i \in DOMAIN productJson : IsCount(productJson[i].stock)

\* A completion has taken the last unit of roles.json and waits for its stock
\* notification, and a sync has rewritten product.json.
C37_Witness ==
    /\ roleStock = 0
    /\ \E p \in Procs : pc[p] = "fw_stocknote"
    /\ \E q \in Procs : resp[q] = "200 synchronized, updated"

\* ------------------------------------------------------------ redeem codes
\* C38: a redeem code is claimed by at most one successful markAsUsed: a call
\* changes a row only of a code that was unused, a call on a used code returns
\* null, and no step (markAsUsed or delete) removes a used code or changes its
\* usedBy or orderId.
C38_CodeClaimedOnce ==
    [][/\ \A c \in DOMAIN codes :
             codes[c].used => (c \in DOMAIN codes' /\ codes'[c] = codes[c])
       /\ \A p \in Procs :
             (pc[p] = "idle" /\ pc'[p] = "mu_result")
                => LET c == CodeName(req'[p].acc) IN
                     IF c \in DOMAIN codes /\ codes[c].used
                     THEN loc'[p].stock = 0
                     ELSE loc'[p].stock > 0 => (c \in DOMAIN codes /\ ~codes[c].used)
       /\ \A p \in Procs :
             (pc[p] = "mu_result" /\ loc[p].stock = 0) => resp'[p] \in {"", "null"}]_vars

\* A second markAsUsed of a used code has returned null, a delete of that
\* code has returned false, and the code is still bound to its first order.
C38_Witness ==
    \E p, q \in Procs, c \in DOMAIN codes :
        /\ codes[c].used
        /\ req[p].kind = "markused" /\ CodeName(req[p].acc) = c /\ resp[p] = "null"
        /\ req[p].order # codes[c].orderId
        /\ req[q].kind = "codedelete" /\ CodeName(req[q].acc) = c /\ resp[q] = "false"

\* --------------------------------------------------------------------- news
\* A request of the news routes that retires the active item is answered:
\* a create with isActive set, or a deactivate, while an item is active.
RetiresActive(p) ==
    /\ pc[p] = "idle"
    /\ resp'[p] \in {"200 news saved", "200 news deactivated"}
    /\ req'[p].kind = "newsdeactivate" \/ req'[p].status \in {"active", "truthy"}
    /\ news.active # NoNews

\* C39: after any sequence of news create, deactivate and delete-history
\* requests the history holds at most 20 entries (the file has one active
\* slot, so at most one item is active), and whenever an active item is
\* replaced by a new active item or deactivated it is the first entry of the
\* history afterwards.
C39_NewsHistoryBounded ==
    /\ [](Len(news.history) <= HistoryLimit)
    /\ [][\A p \in Procs :
             RetiresActive(p)
                => /\ news'.history # <<>>
                   /\ news'.history[1] = Retire(news.active)]_vars

\* A full history has taken the active item of the start in front, dropped
\* its oldest entry, and a new item is active.
C39_Witness ==
    /\ Len(news.history) = HistoryLimit
    /\ news.history[1].isActive
    /\ news.history[HistoryLimit].id = 2
    /\ news.active # NoNews
    /\ news.active.id > news.history[1].id

\* --------------------------------------------------------------- mail service
\* The service is at one of the bounds of the model.
AtBotBound == bot.armed + bot.late = MaxPending \/ bot.timers = MaxTimers

\* C40: the initializing flag of the mail service is never left true for
\* ever: whenever it is true it is false again later (on success, on failure,
\* or after the 10-second timeout). Runs that reach a bound of the model are
\* left aside.
C40_InitializingEnds ==
    [](~AtBotBound) => (bot.initializing ~> ~bot.initializing)

====
